---- MODULE Spec2Model ----
(***************************************************************************)
(* Model of the interactive shell of src/main.py: the redirection parser,  *)
(* the built-in handlers, external dispatch, the REPL loop and the tab     *)
(* completer.  Strings are sequences of one-character strings, so that     *)
(* prefixes, slices, joins and the lexicographic order are computed.       *)
(***************************************************************************)
EXTENDS Integers, Sequences, FiniteSets, TLC

VARIABLES
    env,            \* os.environ["PATH"] and the directories it names
    matches_cache,  \* Completer.matches_cache: text, matches, lcp
    computed,       \* history: compute_matches has run at least once
    call,           \* the last complete(text, state) call and what it gave
    pc,             \* REPL: "awaiting", "continue", "terminated"
    exc,            \* exception that left Shell.run, or "none"
    status,         \* process exit status once terminated, else -1
    files,          \* redirection targets: path -> content, or NoFile
    dirs,           \* directories that exist under the working directory
    handles,        \* file objects opened for redirection and not closed
    nlines,         \* lines read so far
    obs,            \* what the last loop iteration did (NoObs once looped)
    p_parts,        \* parse_redirection alone: its argument
    p_out,          \* parse_redirection alone: its result, or NoOut
    found           \* find_executable alone: the last call and its result

cvars == <<matches_cache, computed, call>>
rvars == <<pc, exc, status, files, dirs, handles, nlines, obs>>
pvars == <<p_parts, p_out>>
fvars == <<found>>
vars == <<env, matches_cache, computed, call, pc, exc, status, files, dirs,
          handles, nlines, obs, p_parts, p_out, found>>

(***************************************************************************)
(* Text                                                                    *)
(***************************************************************************)

\* The characters in use, in code-point order (Python compares str by code point).
CodePoints ==
    <<"\n", " ", "\"", "'", "/", "1", "2", "3", ":", ">",
      "a", "b", "c", "d", "e", "f", "g", "h", "i", "l", "m", "n", "o", "p",
      "r", "s", "t", "u", "x", "y", "z">>

Ord(c) == CHOOSE i \in 1..Len(CodePoints) : CodePoints[i] = c

RECURSIVE StrLess(_, _)
StrLess(a, b) ==
    IF a = <<>> THEN b # <<>>
    ELSE IF b = <<>> THEN FALSE
    ELSE IF Head(a) = Head(b) THEN StrLess(Tail(a), Tail(b))
    ELSE Ord(Head(a)) < Ord(Head(b))

\* s[:n] and s[n:] of Python, for 0 <= n
Take(s, n) == SubSeq(s, 1, IF n < Len(s) THEN n ELSE Len(s))
Drop(s, n) == SubSeq(s, n + 1, Len(s))

\* str.startswith
StartsWith(s, p) == Len(p) <= Len(s) /\ SubSeq(s, 1, Len(p)) = p

\* sep.join(ws)
RECURSIVE JoinWith(_, _)
JoinWith(ws, sep) ==
    IF ws = <<>> THEN <<>>
    ELSE IF Len(ws) = 1 THEN ws[1]
    ELSE ws[1] \o sep \o JoinWith(Tail(ws), sep)

Range(s) == {s[i] : i \in DOMAIN s}

NL == <<"\n">>
SP == <<" ">>

w_echo == <<"e", "c", "h", "o">>
w_type == <<"t", "y", "p", "e">>
w_exit == <<"e", "x", "i", "t">>
w_top == <<"t", "o", "p">>
w_tmp == <<"t", "m", "p">>
w_echos == <<"e", "c", "h", "o", "s">>
w_ls == <<"l", "s">>
w_no == <<"n", "o">>
w_a == <<"a">>
d_a == <<"/", "a">>
d_b == <<"/", "b">>
d_c == <<"/", "c">>
d_x == <<"/", "x">>

(***************************************************************************)
(* The search path and the directories on it                               *)
(***************************************************************************)

\* Shell.builtins
builtins == <<w_echo, w_type, w_exit>>

Entry(d, n, k, x) == [dir |-> d, name |-> n, kind |-> k, x |-> x]

\* The environments the shell is started in: path is the value of PATH split
\* at os.pathsep (<<"">> when PATH is unset), isdir the directories that
\* exist, listable those os.listdir may read (the others raise
\* PermissionError), entries what they hold: kind, and whether
\* os.access(.., X_OK) grants it.
Env1 ==
    [path |-> <<d_a, d_b>>, isdir |-> {d_a, d_b}, listable |-> {d_a, d_b},
     entries |-> {Entry(d_a, w_top, "file", TRUE), Entry(d_b, w_top, "file", TRUE),
                  Entry(d_b, w_ls, "file", TRUE), Entry(d_a, w_echo, "file", TRUE),
                  Entry(d_b, w_echos, "file", TRUE), Entry(d_a, w_no, "file", FALSE)}]
Env2 ==
    [path |-> <<d_x, d_a, d_c, d_b, d_a>>, isdir |-> {d_a, d_b, d_c},
     listable |-> {d_a, d_b},
     entries |-> {Entry(d_a, w_tmp, "dir", TRUE), Entry(d_a, w_ls, "dir", TRUE),
                  Entry(d_b, w_ls, "file", TRUE), Entry(d_c, w_top, "file", TRUE),
                  Entry(d_b, w_echos, "file", TRUE), Entry(d_b, w_a, "file", FALSE)}]
Env3 == [path |-> <<d_a>>, isdir |-> {d_a}, listable |-> {d_a}, entries |-> {}]
Env4 == [path |-> <<<<>>>>, isdir |-> {}, listable |-> {}, entries |-> {}]
Envs == {Env1, Env2, Env3, Env4}

\* os.path.join(directory, name)
PathJoin(d, n) ==
    IF n # <<>> /\ Head(n) = "/" THEN n
    ELSE IF d = <<>> THEN n
    ELSE IF d[Len(d)] = "/" THEN d \o n
    ELSE d \o <<"/">> \o n

\* os.listdir(dir_path)
ListDir(e, d) == {x.name : x \in {y \in e.entries : y.dir = d}}

\* os.access(os.path.join(d, f), os.X_OK)
AccessX(e, full) == \E x \in e.entries : PathJoin(x.dir, x.name) = full /\ x.x

\* os.path.isfile(full)
IsFile(e, full) == \E x \in e.entries : PathJoin(x.dir, x.name) = full /\ x.kind = "file"

(***************************************************************************)
(* Completer                                                               *)
(***************************************************************************)

\* sorted(S) for a set of strings
RECURSIVE Sorted(_)
Sorted(S) ==
    IF S = {} THEN <<>>
    ELSE LET m == CHOOSE x \in S : \A y \in S : y = x \/ StrLess(x, y)
         IN <<m>> \o Sorted(S \ {m})

RECURSIVE LcpScan(_, _, _)
LcpScan(matches, min_len, i) ==
    IF i < min_len /\ \A k \in DOMAIN matches : matches[k][i + 1] = matches[1][i + 1]
    THEN LcpScan(matches, min_len, i + 1)
    ELSE i

\* longest_common_prefix that stops comparing after the first match
longest_common_prefix_of_first(matches) ==
    IF matches = <<>> THEN <<>> ELSE matches[1]

\* Completer.longest_common_prefix
longest_common_prefix(matches) ==
    IF matches = <<>> THEN <<>>
    ELSE LET min_len == CHOOSE n \in {Len(matches[k]) : k \in DOMAIN matches} :
                            \A k \in DOMAIN matches : n <= Len(matches[k])
         IN Take(matches[1], LcpScan(matches, min_len, 0))

\* the set `external` built by the loop of compute_matches
External(e, text) ==
    UNION { IF d \in e.isdir /\ d \in e.listable
            THEN {f \in ListDir(e, d) : StartsWith(f, text) /\ AccessX(e, PathJoin(d, f))}
            ELSE {} : d \in Range(e.path) }

\* compute_matches that leaves the built-ins out
compute_matches_external_only(e, text) ==
    LET all_matches == Sorted(External(e, text))
    IN [text |-> text, matches |-> all_matches, lcp |-> longest_common_prefix(all_matches)]

\* Completer.compute_matches: the new matches_cache
compute_matches(e, text) ==
    LET builtin_matches == {b \in Range(builtins) : StartsWith(b, text)}
        all_matches == Sorted(External(e, text) \cup builtin_matches)
    IN [text |-> text, matches |-> all_matches, lcp |-> longest_common_prefix(all_matches)]

None == [kind |-> "none", val |-> <<>>]
Ret(s) == [kind |-> "str", val |-> s]
Raise(x) == [kind |-> x, val |-> <<>>]

\* line 160: matches[state] is evaluated first (IndexError when state is
\* len(matches)); then str + list raises TypeError before join is called.
CycleExpr(matches, state, text) ==
    IF state >= Len(matches) THEN Raise("IndexError") ELSE Raise("TypeError")

\* complete that completes a single match without the trailing space
complete_without_space(e, cache, text, state) ==
    LET c == IF state = 0 \/ text # cache.text THEN compute_matches(e, text) ELSE cache
        matches == c.matches
        lcp == c.lcp
    IN  IF matches = <<>> THEN [cache |-> c, res |-> None, bell |-> TRUE]
        ELSE IF Len(matches) = 1
        THEN [cache |-> c, res |-> Ret(Drop(matches[1], Len(text))), bell |-> FALSE]
        ELSE IF state = 0
        THEN IF Len(lcp) > Len(text)
             THEN [cache |-> c, res |-> Ret(Drop(lcp, Len(text))), bell |-> FALSE]
             ELSE [cache |-> c, res |-> None, bell |-> TRUE]
        ELSE IF state - 1 < Len(matches)
        THEN [cache |-> c, res |-> CycleExpr(matches, state, text), bell |-> FALSE]
        ELSE [cache |-> c, res |-> None, bell |-> FALSE]

\* Completer.complete: the cache it leaves, what it returns or raises, and
\* whether it wrote the bell
complete(e, cache, text, state) ==
    LET c == IF state = 0 \/ text # cache.text THEN compute_matches(e, text) ELSE cache
        matches == c.matches
        lcp == c.lcp
    IN  IF matches = <<>> THEN [cache |-> c, res |-> None, bell |-> TRUE]
        ELSE IF Len(matches) = 1
        THEN [cache |-> c, res |-> Ret(Drop(matches[1], Len(text)) \o SP), bell |-> FALSE]
        ELSE IF state = 0
        THEN IF Len(lcp) > Len(text)
             THEN [cache |-> c, res |-> Ret(Drop(lcp, Len(text))), bell |-> FALSE]
             ELSE [cache |-> c, res |-> None, bell |-> TRUE]
        ELSE IF state - 1 < Len(matches)
        THEN [cache |-> c, res |-> CycleExpr(matches, state, text), bell |-> FALSE]
        ELSE [cache |-> c, res |-> None, bell |-> FALSE]

(***************************************************************************)
(* The completer driven by the line editor                                 *)
(***************************************************************************)

\* Largest request index the line editor passes.
MaxState == 3

AllNames == Range(builtins) \cup UNION {{x.name : x \in e.entries} : e \in Envs}

\* The partial words completion is asked for: every prefix of a known name,
\* and one that matches nothing.
Prefixes(S) == UNION {{Take(s, k) : k \in 0..Len(s)} : s \in S}
Texts == Prefixes(AllNames) \cup {<<"z">>}

NoCall == [text |-> <<>>, state |-> -1, res |-> None, bell |-> FALSE]

\* Completer.__init__
InitCache == [text |-> <<>>, matches |-> <<>>, lcp |-> <<>>]

\* Values of the variables a specification does not use.
IdleCompleter == matches_cache = InitCache /\ computed = FALSE /\ call = NoCall
IdleRepl ==
    /\ pc = "idle" /\ exc = "none" /\ status = -1 /\ files = <<>> /\ dirs = {}
    /\ handles = {} /\ nlines = 0 /\ obs = <<>>
IdleParse == p_parts = <<>> /\ p_out = <<>>
NoFind == [program |-> <<>>, path |-> <<>>, called |-> FALSE]
IdleResolve == found = NoFind

InitCompleter ==
    /\ env \in Envs
    /\ matches_cache = InitCache
    /\ computed = FALSE
    /\ call = NoCall
    /\ IdleRepl
    /\ IdleParse
    /\ IdleResolve

\* readline calls self.completer.complete(text, state)
Complete(text, state) ==
    LET r == complete(env, matches_cache, text, state)
    IN  /\ matches_cache' = r.cache
        /\ computed' = (computed \/ state = 0 \/ text # matches_cache.text)
        /\ call' = [text |-> text, state |-> state, res |-> r.res, bell |-> r.bell]
        /\ UNCHANGED <<env, rvars, pvars, fvars>>

NextCompleter == \E text \in Texts, state \in 0..MaxState : Complete(text, state)

SpecCompleter == InitCompleter /\ [][NextCompleter]_vars

(***************************************************************************)
(* What the completer is to offer, stated on the filesystem                *)
(***************************************************************************)

\* Names the listing of the search-path directories yields and os.access
\* grants execution of, together with the built-ins, that start with text.
CandSet(e, text) ==
    {n \in Range(builtins) \cup
           {x.name : x \in {y \in e.entries :
                /\ y.dir \in Range(e.path) /\ y.dir \in e.isdir /\ y.dir \in e.listable
                /\ y.x}} :
        StartsWith(n, text)}

\* The longest string that is a prefix of every string of S ("" for no string).
CommonPrefixes(S) == {p \in Prefixes(S) : \A s \in S : StartsWith(s, p)}
LcpOf(S) ==
    IF S = {} THEN <<>>
    ELSE CHOOSE p \in CommonPrefixes(S) : \A q \in CommonPrefixes(S) : Len(q) <= Len(p)

Called == call.state >= 0
NCand == Cardinality(CandSet(env, call.text))

\* C1 (as claimed): on a prefix with two or more candidates whose candidates
\* have been computed, a request k >= 1 returns the candidate at position k-1
\* of the sorted list when k-1 is in range, none when it is past the end, and
\* never raises.
C1_CycleReturnsCandidate ==
    (Called /\ computed /\ call.state >= 1 /\ NCand >= 2) =>
        IF call.state - 1 < NCand
        THEN /\ call.res.kind = "str"
             /\ call.res.val \in CandSet(env, call.text)
             /\ Cardinality({c \in CandSet(env, call.text) : StrLess(c, call.res.val)})
                    = call.state - 1
        ELSE call.res = None

\* C6 (as claimed): in every state, also before the first request, the cached
\* list is sorted without duplicates and is the set of matching names, and the
\* cached LCP is a prefix of every candidate and empty for the empty list.
CacheConsistent ==
    /\ \A i \in 1..(Len(matches_cache.matches) - 1) :
           StrLess(matches_cache.matches[i], matches_cache.matches[i + 1])
    /\ Range(matches_cache.matches) = CandSet(env, matches_cache.text)
    /\ \A m \in Range(matches_cache.matches) : StartsWith(m, matches_cache.lcp)
    /\ (matches_cache.matches = <<>> => matches_cache.lcp = <<>>)
C8_FirstPressExtendsToLcp ==
    (Called /\ call.state = 0 /\ NCand >= 2) =>
        LET p == LcpOf(CandSet(env, call.text))
        IN  IF Len(p) > Len(call.text)
            THEN call.res = Ret(Drop(p, Len(call.text))) /\ ~call.bell
            ELSE call.res = None /\ call.bell

C8_Witness ==
    /\ Called /\ call.state = 0 /\ NCand >= 2
    /\ call.text = <<"e", "c">> /\ call.res = Ret(<<"h", "o">>)

\* C9: with exactly one candidate c, request 0 returns the characters of c
\* after the prefix followed by one space; with no candidate every request
\* rings the bell and returns none.
C9_SingleAndNoCandidate ==
    /\ (Called /\ call.state = 0 /\ NCand = 1) =>
           \E c \in CandSet(env, call.text) :
               call.res = Ret(Drop(c, Len(call.text)) \o SP)
    /\ (Called /\ NCand = 0) => (call.res = None /\ call.bell)

C9_Witness ==
    /\ Called /\ call.state = 0 /\ NCand = 1
    /\ call.text = <<"e", "c">> /\ call.res = Ret(<<"h", "o", " ">>)

C9_WitnessNone == Called /\ call.state >= 1 /\ NCand = 0 /\ call.bell

(***************************************************************************)
(* Tokenizer and redirection parser                                        *)
(***************************************************************************)

Whitespace == {" ", "\n"}

\* the blank check as it would be if it were `not command`
IsBlankWhenEmpty(line) == line = <<>>

\* not command.split(): the line holds no character other than whitespace
IsBlank(line) == \A i \in DOMAIN line : line[i] \in Whitespace

\* shlex.split(command) for lines of word characters, whitespace and the two
\* quote characters: q is "" outside quotes or the open quote, started tells
\* whether a token has begun.  An open quote at the end raises ValueError.
RECURSIVE ShlexScan(_, _, _, _, _, _)
ShlexScan(line, i, q, tok, started, acc) ==
    IF i > Len(line)
    THEN IF q # "" THEN [exc |-> "ValueError", parts |-> <<>>]
         ELSE [exc |-> "none", parts |-> IF started THEN Append(acc, tok) ELSE acc]
    ELSE LET c == line[i]
         IN  IF q # ""
             THEN IF c = q THEN ShlexScan(line, i + 1, "", tok, TRUE, acc)
                  ELSE ShlexScan(line, i + 1, q, Append(tok, c), TRUE, acc)
             ELSE IF c \in Whitespace
             THEN ShlexScan(line, i + 1, "", <<>>, FALSE,
                            IF started THEN Append(acc, tok) ELSE acc)
             ELSE IF c \in {"'", "\""}
             THEN ShlexScan(line, i + 1, c, tok, TRUE, acc)
             ELSE ShlexScan(line, i + 1, "", Append(tok, c), TRUE, acc)

shlex_split(line) == ShlexScan(line, 1, "", <<>>, FALSE, <<>>)

\* An optional string: <<>> is None, <<s>> is the string s.
Some(s) == <<s>>
\* `if x:` for an optional string: neither None nor ""
Truthy(o) == o # <<>> /\ o[1] # <<>>

op_gt == <<">">>
op_1gt == <<"1", ">">>
op_gtgt == <<">", ">">>
op_1gtgt == <<"1", ">", ">">>
op_2gt == <<"2", ">">>
op_2gtgt == <<"2", ">", ">">>
op_3gt == <<"3", ">">>

\* the while loop of parse_redirection from index i (1-based); parts[i + 1]
\* past the end raises IndexError
RECURSIVE ParseScan(_, _, _)
ParseScan(parts, i, st) ==
    IF i > Len(parts) THEN st
    ELSE IF parts[i] \in {op_gt, op_1gt, op_gtgt, op_1gtgt, op_2gt, op_2gtgt} /\ i + 1 > Len(parts)
    THEN [st EXCEPT !.exc = "IndexError"]
    ELSE IF parts[i] \in {op_gt, op_1gt}
    THEN ParseScan(parts, i + 2,
             [st EXCEPT !.stdout_file = Some(parts[i + 1]), !.stdout_mode = "w"])
    ELSE IF parts[i] \in {op_gtgt, op_1gtgt}
    THEN ParseScan(parts, i + 2,
             [st EXCEPT !.stdout_file = Some(parts[i + 1]), !.stdout_mode = "a"])
    ELSE IF parts[i] = op_2gt
    THEN ParseScan(parts, i + 2,
             [st EXCEPT !.stderr_file = Some(parts[i + 1]), !.stderr_mode = "w"])
    ELSE IF parts[i] = op_2gtgt
    THEN ParseScan(parts, i + 2,
             [st EXCEPT !.stderr_file = Some(parts[i + 1]), !.stderr_mode = "a"])
    ELSE ParseScan(parts, i + 1, [st EXCEPT !.cmd_parts = Append(@, parts[i])])

\* parse_redirection with the append mode of stdout lost
parse_redirection_truncating(parts) ==
    [ParseScan(parts, 1,
        [cmd_parts |-> <<>>, stdout_file |-> <<>>, stdout_mode |-> "w",
         stderr_file |-> <<>>, stderr_mode |-> "w", exc |-> "none"])
     EXCEPT !.stdout_mode = "w"]

\* RedirectionManager.parse_redirection
parse_redirection(parts) ==
    ParseScan(parts, 1,
        [cmd_parts |-> <<>>, stdout_file |-> <<>>, stdout_mode |-> "w",
         stderr_file |-> <<>>, stderr_mode |-> "w", exc |-> "none"])

(***************************************************************************)
(* Files, handles and the terminal during one dispatch                     *)
(***************************************************************************)

p_f == <<"f">>
p_d == <<"d">>
p_df == <<"d", "/", "f">>
p_ro == <<"r", "o">>

\* Paths open() refuses with PermissionError (a file the user may not write).
Unwritable == {p_ro}

\* os.path.dirname
RECURSIVE LastSlash(_, _)
LastSlash(path, i) ==
    IF i = 0 THEN 0 ELSE IF path[i] = "/" THEN i ELSE LastSlash(path, i - 1)
Dirname(path) ==
    LET k == LastSlash(path, Len(path))
    IN  IF k = 0 THEN <<>> ELSE IF k = 1 THEN <<"/">> ELSE Take(path, k - 1)

\* every directory os.makedirs(parent) has to make
RECURSIVE Ancestors(_)
Ancestors(d) == IF d = <<>> \/ d = <<"/">> THEN {} ELSE {d} \cup Ancestors(Dirname(d))

\* The world a dispatch acts on: files and dirs on disk, the handles open,
\* what went to the terminal, the processes spawned, the paths open() was
\* called on, and the exception in flight.
World(f, d, h) ==
    [files |-> f, dirs |-> d, handles |-> h, out |-> <<>>, err |-> <<>>,
     spawned |-> <<>>, opened |-> {}, exc |-> "none"]

Handle(stream, filename, mode) == [stream |-> stream, path |-> filename, mode |-> mode]

\* RedirectionManager.open_for_write(filename, mode), the file object being
\* bound to `stream`: makedirs of a missing parent, then open()
open_for_write(w, filename, mode, stream) ==
    LET parent == Dirname(filename)
        made == IF parent # <<>> /\ parent \notin w.dirs /\ parent \notin DOMAIN w.files
                THEN [w EXCEPT !.dirs = @ \cup Ancestors(parent)] ELSE w
    IN  IF filename \in Unwritable THEN [made EXCEPT !.exc = "PermissionError"]
        ELSE IF filename \in made.dirs THEN [made EXCEPT !.exc = "IsADirectoryError"]
        ELSE IF parent # <<>> /\ parent \notin made.dirs
        THEN [made EXCEPT !.exc = "NotADirectoryError"]
        ELSE [made EXCEPT
                 !.files = IF mode = "w" \/ filename \notin DOMAIN made.files
                           THEN (filename :> <<>>) @@ made.files ELSE made.files,
                 !.handles = @ \cup {Handle(stream, filename, mode)},
                 !.opened = @ \cup {filename}]

\* data written through a handle whose position is pos: an "a" handle writes
\* at the end of the file, a "w" handle at its own position
WriteAt(content, pos, data) == Take(content, pos) \o data \o Drop(content, pos + Len(data))
write(w, h, pos, data) ==
    [w EXCEPT !.files = (h.path :> (IF h.mode = "a" THEN w.files[h.path] \o data
                                    ELSE WriteAt(w.files[h.path], pos, data))) @@ w.files]

\* file.close()
close(w, h) == [w EXCEPT !.handles = @ \ {h}]

\* print(text): text and a newline on the terminal's standard output
print(w, text) == [w EXCEPT !.out = @ \o text \o NL]
\* print(text, file=sys.stderr)
print_err(w, text) == [w EXCEPT !.err = @ \o text \o NL]

(***************************************************************************)
(* Built-in handlers and external dispatch                                 *)
(***************************************************************************)

m_builtin == <<" ", "i", "s", " ", "a", " ", "s", "h", "e", "l", "l", " ",
               "b", "u", "i", "l", "t", "i", "n">>
m_is == <<" ", "i", "s", " ">>
m_not_found == <<" ", "n", "o", "t", " ", "f", "o", "u", "n", "d">>
m_cmd_not_found == <<":", " ", "c", "o", "m", "m", "a", "n", "d", " ",
                     "n", "o", "t", " ", "f", "o", "u", "n", "d">>

\* find_executable as it would be if a later directory of PATH replaced an
\* earlier hit
find_executable_last_hit(e, program) ==
    LET hits == {i \in DOMAIN e.path :
                    /\ IsFile(e, PathJoin(e.path[i], program))
                    /\ AccessX(e, PathJoin(e.path[i], program))}
    IN  IF hits = {} THEN <<>>
        ELSE Some(PathJoin(e.path[CHOOSE i \in hits : \A j \in hits : j <= i], program))

\* Shell.find_executable: the first directory of PATH, in order, in which
\* program is a file os.access grants execution of; None otherwise
RECURSIVE FindFrom(_, _, _)
FindFrom(e, program, i) ==
    IF i > Len(e.path) THEN <<>>
    ELSE LET full_path == PathJoin(e.path[i], program)
         IN  IF IsFile(e, full_path) /\ AccessX(e, full_path) THEN Some(full_path)
             ELSE FindFrom(e, program, i + 1)
find_executable(e, program) == FindFrom(e, program, 1)

\* handle_exit as it would be if it left the shell only for a bare `exit`
handle_exit_without_arguments(parts) == parts = <<w_exit>>

\* CommandHandler.handle_exit: TRUE when it calls sys.exit(0), FALSE when it
\* returns False; parts[0] is read first, whatever follows it
handle_exit(parts) == parts[1] = w_exit

\* handle_echo as it would be if it left the stderr target alone
handle_echo_ignoring_stderr(w, parts, stdout_file, stdout_mode, stderr_file, stderr_mode) ==
    LET output == JoinWith(Tail(parts), SP)
        out_file == Handle("stdout", stdout_file[1], stdout_mode)
        o == open_for_write(w, stdout_file[1], stdout_mode, "stdout")
    IN  IF Truthy(stdout_file)
        THEN IF o.exc # "none" THEN o
             ELSE close(write(o, out_file, 0, output \o NL), out_file)
        ELSE print(w, output)

\* CommandHandler.handle_echo, for parts[0] == "echo"
handle_echo(w, parts, stdout_file, stdout_mode, stderr_file, stderr_mode) ==
    LET output == JoinWith(Tail(parts), SP)
        out_file == Handle("stdout", stdout_file[1], stdout_mode)
        o == open_for_write(w, stdout_file[1], stdout_mode, "stdout")
        w1 == IF Truthy(stdout_file)
              THEN IF o.exc # "none" THEN o
                   ELSE close(write(o, out_file, 0, output \o NL), out_file)
              ELSE print(w, output)
        e1 == open_for_write(w1, stderr_file[1], stderr_mode, "stderr")
    IN  IF w1.exc # "none" THEN w1
        ELSE IF Truthy(stderr_file)
        THEN IF e1.exc # "none" THEN e1
             ELSE close(e1, Handle("stderr", stderr_file[1], stderr_mode))
        ELSE w1

\* handle_type as it would be if it asked the search path before the built-ins
handle_type_path_first(w, e, parts, stdout_file, stdout_mode) ==
    LET cmd_name == parts[2]
        full_path == find_executable(e, cmd_name)
        output == IF Truthy(full_path) THEN cmd_name \o m_is \o full_path[1]
                  ELSE IF cmd_name \in Range(builtins) THEN cmd_name \o m_builtin
                  ELSE cmd_name \o m_not_found
        file == Handle("stdout", stdout_file[1], stdout_mode)
        o == open_for_write(w, stdout_file[1], stdout_mode, "stdout")
    IN  IF Truthy(stdout_file)
        THEN IF o.exc # "none" THEN o ELSE close(write(o, file, 0, output \o NL), file)
        ELSE print(w, output)

\* CommandHandler.handle_type, for parts[0] == "type" and len(parts) > 1
handle_type(w, e, parts, stdout_file, stdout_mode) ==
    LET cmd_name == parts[2]
        full_path == find_executable(e, cmd_name)
        output == IF cmd_name \in Range(builtins) THEN cmd_name \o m_builtin
                  ELSE IF Truthy(full_path) THEN cmd_name \o m_is \o full_path[1]
                  ELSE cmd_name \o m_not_found
        file == Handle("stdout", stdout_file[1], stdout_mode)
        o == open_for_write(w, stdout_file[1], stdout_mode, "stdout")
    IN  IF Truthy(stdout_file)
        THEN IF o.exc # "none" THEN o ELSE close(write(o, file, 0, output \o NL), file)
        ELSE print(w, output)

\* What the spawned program does: ok is whether subprocess.run starts it
\* (it raises OSError otherwise), out and err what the child writes to its
\* standard output and standard error, err_first the order of the two writes.
Children ==
    {[ok |-> FALSE, out |-> <<>>, err |-> <<>>, err_first |-> FALSE]}
    \cup [ok : {TRUE}, out : {<<>>, <<"o", "\n">>}, err : {<<>>, <<"e", "\n">>},
          err_first : {FALSE}]
    \cup {[ok |-> TRUE, out |-> <<"o", "\n">>, err |-> <<"e", "\n">>, err_first |-> TRUE]}

\* one write of the child to a stream: to the handle's file when the stream is
\* redirected, else to the terminal
ChildWrite(w, stream, target, mode, data) ==
    IF Truthy(target) THEN write(w, Handle(stream, target[1], mode), 0, data)
    ELSE IF stream = "stdout" THEN [w EXCEPT !.out = @ \o data]
    ELSE [w EXCEPT !.err = @ \o data]

\* subprocess.run(parts, executable=full_path, stdout=.., stderr=..)
spawn(w, parts, full_path, stdout_file, stdout_mode, stderr_file, stderr_mode, child) ==
    IF ~child.ok THEN [w EXCEPT !.exc = "OSError"]
    ELSE LET s == [w EXCEPT !.spawned = Append(@, [argv |-> parts, executable |-> full_path])]
         IN  IF child.err_first
             THEN ChildWrite(ChildWrite(s, "stderr", stderr_file, stderr_mode, child.err),
                             "stdout", stdout_file, stdout_mode, child.out)
             ELSE ChildWrite(ChildWrite(s, "stdout", stdout_file, stdout_mode, child.out),
                             "stderr", stderr_file, stderr_mode, child.err)

\* run_external closing its handles only when nothing was raised
CloseBoundOnSuccess(w, stdout_file, stdout_mode, stderr_file, stderr_mode) ==
    IF w.exc # "none" THEN w
    ELSE [w EXCEPT !.handles =
            @ \ ({Handle("stdout", stdout_file[i], stdout_mode) : i \in DOMAIN stdout_file}
                 \cup {Handle("stderr", stderr_file[i], stderr_mode) : i \in DOMAIN stderr_file})]

\* the finally clause of run_external: close the handles that were bound
CloseBound(w, stdout_file, stdout_mode, stderr_file, stderr_mode) ==
    [w EXCEPT !.handles =
        @ \ ({Handle("stdout", stdout_file[i], stdout_mode) : i \in DOMAIN stdout_file}
             \cup {Handle("stderr", stderr_file[i], stderr_mode) : i \in DOMAIN stderr_file})]

\* Shell.run_external
run_external(w, e, parts, stdout_file, stderr_file, stdout_mode, stderr_mode, child) ==
    LET full_path == find_executable(e, parts[1])
        err_file == Handle("stderr", stderr_file[1], stdout_mode)
        o == open_for_write(w, stderr_file[1], stdout_mode, "stderr")
        w1 == IF Truthy(stdout_file)
              THEN open_for_write(w, stdout_file[1], stdout_mode, "stdout") ELSE w
        w2 == IF w1.exc = "none" /\ Truthy(stderr_file)
              THEN open_for_write(w1, stderr_file[1], stderr_mode, "stderr") ELSE w1
        w3 == IF w2.exc = "none"
              THEN spawn(w2, parts, full_path[1],
                         IF Truthy(stdout_file) THEN stdout_file ELSE <<>>, stdout_mode,
                         IF Truthy(stderr_file) THEN stderr_file ELSE <<>>, stderr_mode, child)
              ELSE w2
    IN  IF ~Truthy(full_path)
        THEN IF Truthy(stderr_file)
             THEN IF o.exc # "none" THEN o
                  ELSE close(write(o, err_file, 0, parts[1] \o m_cmd_not_found \o NL), err_file)
             ELSE print_err(w, parts[1] \o m_cmd_not_found)
        ELSE CloseBound(w3, stdout_file, stdout_mode, stderr_file, stderr_mode)

(***************************************************************************)
(* The REPL loop                                                           *)
(***************************************************************************)

NoRedirection ==
    [cmd_parts |-> <<>>, stdout_file |-> <<>>, stdout_mode |-> "w",
     stderr_file |-> <<>>, stderr_mode |-> "w", exc |-> "none"]

\* One pass through the body of the loop of Shell.run for a line that was
\* read: how it ends ("continue", or "terminated" by sys.exit or by an
\* exception nothing catches), the branch taken, and the world it leaves.
Outcome(next, kind, w, parts, red, st) ==
    [pc |-> next, kind |-> kind, w |-> w, parts |-> parts, red |-> red, status |-> st]

run_body(w, e, command, child) ==
    LET tok == shlex_split(command)
        red == parse_redirection(tok.parts)
        cmd_parts == red.cmd_parts
        Done(kind, w1) ==
            IF w1.exc = "none" THEN Outcome("continue", kind, w1, tok.parts, red, -1)
            ELSE Outcome("terminated", kind, w1, tok.parts, red, 1)
    IN  IF IsBlank(command)
        THEN Outcome("continue", "blank", w, <<>>, NoRedirection, -1)
        ELSE IF tok.exc # "none"
        THEN Outcome("terminated", "tokenize", [w EXCEPT !.exc = tok.exc], <<>>,
                     NoRedirection, 1)
        ELSE IF red.exc # "none"
        THEN Outcome("terminated", "parse", [w EXCEPT !.exc = red.exc], tok.parts,
                     NoRedirection, 1)
        ELSE IF cmd_parts = <<>>
        THEN Outcome("terminated", "empty", [w EXCEPT !.exc = "IndexError"], tok.parts, red, 1)
        ELSE IF handle_exit(cmd_parts)
        THEN Outcome("terminated", "exit", w, tok.parts, red, 0)
        ELSE IF cmd_parts[1] = w_echo
        THEN Done("echo", handle_echo(w, cmd_parts, red.stdout_file, red.stdout_mode,
                                      red.stderr_file, red.stderr_mode))
        ELSE IF cmd_parts[1] = w_type /\ Len(cmd_parts) > 1
        THEN Done("type", handle_type(w, e, cmd_parts, red.stdout_file, red.stdout_mode))
        ELSE Done(IF Truthy(find_executable(e, cmd_parts[1])) THEN "external" ELSE "notfound",
                  run_external(w, e, cmd_parts, red.stdout_file, red.stderr_file,
                               red.stdout_mode, red.stderr_mode, child))

\* Lines read in one run of the shell.
MaxLines == 2

q_ab == <<"\"", "a", " ", " ", "b", "\"">>
q_open == <<"'", "a">>

Operators == {op_gt, op_1gt, op_gtgt, op_1gtgt, op_2gt, op_2gtgt}

\* The command words typed: no command, or a name and its arguments.
Commands ==
    {<<>>, <<w_echo>>, <<w_echo, w_a>>, <<w_echo, q_ab>>, <<w_echo, w_a, w_ls>>,
     <<w_type>>, <<w_type, w_echo>>, <<w_type, w_ls>>, <<w_type, w_a>>,
     <<w_exit>>, <<w_exit, w_a>>, <<w_ls>>, <<w_ls, w_a>>, <<w_no>>}

\* The redirections typed after them: none, each operator on f, targets in a
\* directory to be made, targets that cannot be opened, both streams, an
\* operator given twice, a digit that is no stream, an operator without target.
Redirections ==
    {<<>>}
    \cup {<<o, p_f>> : o \in Operators}
    \cup {<<op_gt, p_df>>, <<op_2gtgt, p_df>>, <<op_gt, p_ro>>, <<op_2gt, p_ro>>,
          <<op_gt, p_f, op_2gt, p_ro>>, <<op_gt, p_f, op_2gtgt, p_f>>,
          <<op_gtgt, p_f, op_2gt, p_df>>, <<op_gt, p_f, op_gtgt, p_df>>,
          <<op_3gt, p_f>>, <<op_gt>>, <<op_2gtgt>>}

\* The lines typed: command words then redirections, separated by one space;
\* a line of spaces; an open quote; a redirection among the arguments.
Lines ==
    {JoinWith(c \o r, SP) : c \in Commands, r \in Redirections}
    \cup {<<" ", " ">>,
          JoinWith(<<w_echo, q_open>>, SP),
          JoinWith(<<w_echo, w_a, op_gt, p_f, w_a>>, SP)}

SilentChild == [ok |-> TRUE, out |-> <<>>, err |-> <<>>, err_first |-> FALSE]

\* The children a line can meet: a choice only when the line spawns one.
ChildrenOf(e, command) ==
    LET tok == shlex_split(command)
        red == parse_redirection(tok.parts)
    IN  IF /\ ~IsBlank(command) /\ tok.exc = "none" /\ red.exc = "none"
           /\ red.cmd_parts # <<>>
           /\ red.cmd_parts[1] \notin {w_exit, w_echo}
           /\ ~(red.cmd_parts[1] = w_type /\ Len(red.cmd_parts) > 1)
           /\ Truthy(find_executable(e, red.cmd_parts[1]))
        THEN Children ELSE {SilentChild}

NoObs ==
    [kind |-> "none", line |-> <<>>, parts |-> <<>>, red |-> NoRedirection,
     out |-> <<>>, err |-> <<>>, spawned |-> <<>>, opened |-> {},
     pre_files |-> <<>>, pre_dirs |-> {}]

\* The files the shell finds when it starts: f with a line in it, and ro.
InitFiles == (p_ro :> <<>>) @@ (p_f :> <<"x", "\n">>)


Init ==
    /\ env = Env1
    /\ pc = "awaiting"
    /\ exc = "none"
    /\ status = -1
    /\ files = InitFiles
    /\ dirs = {}
    /\ handles = {}
    /\ nlines = 0
    /\ obs = NoObs
    /\ IdleCompleter
    /\ IdleParse
    /\ IdleResolve

\* input("$ ") returns command, and the body of the loop runs on it
ReadLine(command) ==
    /\ pc = "awaiting"
    /\ nlines < MaxLines
    /\ \E child \in ChildrenOf(env, command) :
         \E r \in {run_body(World(files, dirs, handles), env, command, child)} :
             /\ pc' = r.pc
             /\ exc' = r.w.exc
             /\ status' = r.status
             /\ files' = r.w.files
             /\ dirs' = r.w.dirs
             /\ handles' = r.w.handles
             /\ obs' = [kind |-> r.kind, line |-> command, parts |-> r.parts,
                        red |-> r.red, out |-> r.w.out, err |-> r.w.err,
                        spawned |-> r.w.spawned, opened |-> r.w.opened,
                        pre_files |-> files, pre_dirs |-> dirs]
    /\ nlines' = nlines + 1
    /\ UNCHANGED <<env, cvars, pvars, fvars>>

\* input("$ ") raises EOFError: print() and break, and the process ends
EndOfInput ==
    /\ pc = "awaiting"
    /\ pc' = "terminated"
    /\ status' = 0
    /\ obs' = [NoObs EXCEPT !.kind = "eof", !.out = NL, !.pre_files = files,
                            !.pre_dirs = dirs]
    /\ UNCHANGED <<env, exc, files, dirs, handles, nlines, cvars, pvars, fvars>>

\* `continue`, or the end of the loop body: back to input("$ ")
Continue ==
    /\ pc = "continue"
    /\ pc' = "awaiting"
    /\ obs' = NoObs
    /\ UNCHANGED <<env, exc, status, files, dirs, handles, nlines, cvars, pvars, fvars>>

Next ==
    \/ \E command \in Lines : ReadLine(command)
    \/ EndOfInput
    \/ Continue

Spec == Init /\ [][Next]_vars

(***************************************************************************)
(* parse_redirection on its own                                            *)
(***************************************************************************)

\* Longest word list given to parse_redirection.
MaxParts == 4

Tokens == Operators \cup {op_3gt, p_f, w_a}

InitParse ==
    /\ p_parts \in UNION {[1..n -> Tokens] : n \in 0..MaxParts}
    /\ p_out = <<>>
    /\ env = Env1
    /\ IdleCompleter
    /\ IdleRepl
    /\ IdleResolve

\* RedirectionManager.parse_redirection(parts) is called
Parse ==
    /\ p_out = <<>>
    /\ p_out' = <<parse_redirection(p_parts)>>
    /\ UNCHANGED <<env, cvars, rvars, p_parts, fvars>>

NextParse == Parse

SpecParse == InitParse /\ [][NextParse]_vars

\* The positions of parts that hold a redirection operator: a token spelled
\* as one that is not itself the target of the operator before it.
IsOperatorAt[parts \in Seq(Tokens), i \in Nat] ==
    /\ i \in DOMAIN parts
    /\ parts[i] \in Operators
    /\ (i = 1 \/ ~IsOperatorAt[parts, i - 1])
OperatorPositions(parts) == {i \in DOMAIN parts : IsOperatorAt[parts, i]}

\* the words of parts at the positions of K, in order
RECURSIVE KeepFrom(_, _, _)
KeepFrom(parts, i, K) ==
    IF i > Len(parts) THEN <<>>
    ELSE (IF i \in K THEN <<parts[i]>> ELSE <<>>) \o KeepFrom(parts, i + 1, K)

\* target and mode of a stream: those of its last operator, none without one
LastOf(parts, ops) ==
    LET P == {i \in OperatorPositions(parts) : parts[i] \in ops}
    IN  IF P = {} THEN <<>> ELSE <<CHOOSE i \in P : \A j \in P : j <= i>>

\* C5: when each redirection operator is followed by a word, the command
\* vector is the input without the operators and the words after them, in
\* order; each stream has the target and mode of its last operator (>, 1>
\* truncate; >>, 1>> append; 2> truncate; 2>> append) and none without one;
\* every other token, 3> included, stays in the command vector.
C5_ParseRedirection ==
    LET ops == OperatorPositions(p_parts)
        r == p_out[1]
        so == LastOf(p_parts, {op_gt, op_1gt, op_gtgt, op_1gtgt})
        se == LastOf(p_parts, {op_2gt, op_2gtgt})
    IN  (p_out # <<>> /\ \A i \in ops : i + 1 <= Len(p_parts)) =>
            /\ r.exc = "none"
            /\ r.cmd_parts =
                   KeepFrom(p_parts, 1, {i \in DOMAIN p_parts : i \notin ops /\ i - 1 \notin ops})
            /\ IF so = <<>> THEN r.stdout_file = <<>>
               ELSE /\ r.stdout_file = Some(p_parts[so[1] + 1])
                    /\ r.stdout_mode =
                           (IF p_parts[so[1]] \in {op_gt, op_1gt} THEN "w" ELSE "a")
            /\ IF se = <<>> THEN r.stderr_file = <<>>
               ELSE /\ r.stderr_file = Some(p_parts[se[1] + 1])
                    /\ r.stderr_mode = (IF p_parts[se[1]] = op_2gt THEN "w" ELSE "a")

C5_Witness ==
    /\ p_out # <<>>
    /\ p_parts = <<w_a, op_2gtgt, p_f, op_3gt>>
    /\ p_out[1].cmd_parts = <<w_a, op_3gt>>
    /\ p_out[1].stdout_file = <<>>
    /\ p_out[1].stderr_file = Some(p_f) /\ p_out[1].stderr_mode = "a"

(***************************************************************************)
(* Claims about the REPL loop and dispatch                                 *)
(***************************************************************************)

Dispatched == obs.kind \in {"echo", "type", "external", "notfound"}
OpenErrors == {"PermissionError", "IsADirectoryError", "NotADirectoryError"}

\* the redirection targets the last line names, as the handlers see them
StdoutTarget == IF Truthy(obs.red.stdout_file) THEN {obs.red.stdout_file[1]} ELSE {}
StderrTarget == IF Truthy(obs.red.stderr_file) THEN {obs.red.stderr_file[1]} ELSE {}

\* C2 (as claimed): a line with an open quote, or with a redirection operator
\* as its last token, is reported and the loop goes back to awaiting input:
\* it does not terminate, and nothing is dispatched for the line.
C2_ParseErrorKeepsLoop ==
    obs.kind \in {"tokenize", "parse"} =>
        /\ pc # "terminated"
        /\ exc = "none"
        /\ obs.opened = {} /\ obs.spawned = <<>>

\* C3 (as claimed): when opening a redirection target fails during the
\* dispatch of echo, type or an external command, the REPL does not terminate.
C3_OpenFailureKeepsLoop ==
    (obs.kind \in {"echo", "type", "external"} /\ exc \in OpenErrors) =>
        pc # "terminated"

\* C4 (as claimed): after echo, a resolved external command or an unresolved
\* command name is dispatched with 2>> f while f holds content, what f held is
\* a prefix of what it holds (lines whose own stdout redirection is to f too
\* are left aside).
C4_AppendStderrKeepsContent ==
    \A f \in StderrTarget :
        (/\ obs.kind \in {"echo", "external", "notfound"}
         /\ pc = "continue"
         /\ obs.red.stderr_mode = "a"
         /\ f \notin StdoutTarget
         /\ f \in DOMAIN obs.pre_files /\ obs.pre_files[f] # <<>>) =>
            f \in DOMAIN files /\ StartsWith(files[f], obs.pre_files[f])

\* C7 (as claimed): after a command other than exit is dispatched, each
\* redirection target its line names exists, with its parent directories; one
\* opened to append begins with what it held, one opened to truncate keeps
\* nothing of it (lines naming one file for both streams are left aside).
TargetMade(f, mode) ==
    /\ f \in DOMAIN files
    /\ Dirname(f) # <<>> => Dirname(f) \in dirs
    /\ (f \in DOMAIN obs.pre_files /\ obs.pre_files[f] # <<>>) =>
           (StartsWith(files[f], obs.pre_files[f]) <=> mode = "a")
C7_TargetsCreated ==
    (Dispatched /\ pc = "continue" /\ StdoutTarget \cap StderrTarget = {}) =>
        /\ \A f \in StdoutTarget : TargetMade(f, obs.red.stdout_mode)
        /\ \A f \in StderrTarget : TargetMade(f, obs.red.stderr_mode)

\* C10: whenever control is back in the loop, and also when the dispatch has
\* failed, no file object opened for a redirection is still open.
C10_NoHandleLeftOpen == handles = {}

\* the second open of an external command failed after the first succeeded
C10_Witness ==
    /\ obs.kind = "external" /\ exc = "PermissionError"
    /\ obs.opened = {p_f} /\ p_f \in StdoutTarget /\ p_ro \in StderrTarget
    /\ handles = {}

\* the command name of the last line, when its command vector has one
CommandName == IF obs.red.cmd_parts = <<>> THEN {} ELSE {obs.red.cmd_parts[1]}

\* the line an unresolved command name is answered with
NotFoundLine(name) ==
    name \o <<":", " ", "c", "o", "m", "m", "a", "n", "d", " ",
              "n", "o", "t", " ", "f", "o", "u", "n", "d", "\n">>

\* C11 (as claimed): when the command name is no built-in and the search path
\* resolves it to nothing, no process is spawned, the REPL goes back to
\* awaiting input, and the line `<name>: command not found` and nothing else
\* is written: to the stderr target file when the line names one, to the
\* terminal's standard error otherwise.
C11_NotFoundReported ==
    \A name \in CommandName :
        (name \notin Range(builtins) /\ ~Truthy(find_executable(env, name))) =>
            /\ obs.spawned = <<>>
            /\ pc = "continue"
            /\ obs.out = <<>>
            /\ IF StderrTarget = {}
               THEN obs.err = NotFoundLine(name) /\ files = obs.pre_files
               ELSE /\ obs.err = <<>>
                    /\ \A f \in StderrTarget :
                         /\ f \in DOMAIN files
                         /\ \/ files[f] = NotFoundLine(name)
                            \/ /\ f \in DOMAIN obs.pre_files
                               /\ files[f] = obs.pre_files[f] \o NotFoundLine(name)

\* C12: when the first word of the command vector is exit, the process is
\* terminated with status 0 whatever the arguments and the redirections are;
\* no target was opened, created or truncated, and nothing was written.
C12_ExitLeavesNoTrace ==
    w_exit \in CommandName =>
        /\ pc = "terminated" /\ status = 0 /\ exc = "none"
        /\ obs.opened = {} /\ files = obs.pre_files /\ dirs = obs.pre_dirs
        /\ obs.out = <<>> /\ obs.err = <<>> /\ obs.spawned = <<>>

\* exit with an argument and a truncating redirection to a file with content
C12_Witness ==
    /\ obs.kind = "exit" /\ pc = "terminated" /\ status = 0
    /\ Len(obs.red.cmd_parts) = 2
    /\ p_f \in StdoutTarget /\ obs.red.stdout_mode = "w"
    /\ files[p_f] = <<"x", "\n">>

\* what a file holds once data was written to it through a handle opened in
\* mode: held is what it held before, <<>> when it did not exist, else <<c>>
Written(held, mode, data) ==
    IF mode = "a" /\ held # <<>> THEN <<held[1] \o data>> ELSE <<data>>
HeldBefore(f) == IF f \in DOMAIN obs.pre_files THEN <<obs.pre_files[f]>> ELSE <<>>

\* the line echo makes of its arguments
EchoLine ==
    LET args == Tail(obs.red.cmd_parts)
        Joined[i \in 0..Len(args)] ==
            IF i = 0 THEN <<>>
            ELSE IF i = 1 THEN args[1] ELSE Joined[i - 1] \o <<" ">> \o args[i]
    IN  Joined[Len(args)] \o <<"\n">>

\* what f holds after echo wrote its line to the stdout target
AfterEchoStdout(f) ==
    IF f \in StdoutTarget THEN Written(HeldBefore(f), obs.red.stdout_mode, EchoLine)
    ELSE HeldBefore(f)

\* C13: once echo is done, its arguments joined by single spaces and a newline
\* are in the stdout target (all the file holds in truncate mode, after what
\* it held in append mode), or on the terminal when there is no stdout target;
\* a stderr target exists, holds nothing in truncate mode and what it held
\* when it was opened in append mode; nothing went to standard error, and no
\* other file changed.
C13_EchoWrites ==
    (w_echo \in CommandName /\ pc = "continue") =>
        /\ obs.out = (IF StdoutTarget = {} THEN EchoLine ELSE <<>>)
        /\ obs.err = <<>> /\ obs.spawned = <<>>
        /\ DOMAIN files = DOMAIN obs.pre_files \cup StdoutTarget \cup StderrTarget
        /\ \A f \in DOMAIN files :
             files[f] = IF f \in StderrTarget
                        THEN IF obs.red.stderr_mode = "a" /\ AfterEchoStdout(f) # <<>>
                             THEN AfterEchoStdout(f)[1] ELSE <<>>
                        ELSE AfterEchoStdout(f)[1]

\* echo a >> f 2> d/f: the line is added to f, and d/f is made, empty
C13_Witness ==
    /\ obs.kind = "echo" /\ pc = "continue"
    /\ obs.red.cmd_parts = <<w_echo, w_a>>
    /\ p_f \in StdoutTarget /\ obs.red.stdout_mode = "a"
    /\ p_df \in StderrTarget /\ obs.red.stderr_mode = "w"
    /\ files[p_f] = <<"x", "\n", "a", "\n">>
    /\ files[p_df] = <<>>

\* the line type answers with for name
TypeLine(name) ==
    IF name \in {w_exit, w_echo, w_type}
    THEN name \o <<" ", "i", "s", " ", "a", " ", "s", "h", "e", "l", "l", " ",
                   "b", "u", "i", "l", "t", "i", "n", "\n">>
    ELSE IF find_executable(env, name) # <<>>
    THEN name \o <<" ", "i", "s", " ">> \o find_executable(env, name)[1] \o <<"\n">>
    ELSE name \o <<" ", "n", "o", "t", " ", "f", "o", "u", "n", "d", "\n">>

\* C14: once `type name` is done, one line is written to the stdout target
\* (all the file holds in truncate mode, after what it held in append mode)
\* or to the terminal when there is none: `name is a shell builtin` for exit,
\* echo and type even when the search path has an executable of that name,
\* else `name is path` with the path the resolver returns, else
\* `name not found`; nothing else is written.
C14_TypeReports ==
    (w_type \in CommandName /\ Len(obs.red.cmd_parts) >= 2 /\ pc = "continue") =>
        LET line == TypeLine(obs.red.cmd_parts[2])
        IN  /\ obs.out = (IF StdoutTarget = {} THEN line ELSE <<>>)
            /\ obs.err = <<>> /\ obs.spawned = <<>>
            /\ DOMAIN files = DOMAIN obs.pre_files \cup StdoutTarget
            /\ \A f \in DOMAIN files :
                 files[f] = IF f \in StdoutTarget
                            THEN Written(HeldBefore(f), obs.red.stdout_mode, line)[1]
                            ELSE obs.pre_files[f]

\* type echo >> f while /a/echo is an executable on the search path
C14_Witness ==
    /\ obs.kind = "type" /\ pc = "continue"
    /\ obs.red.cmd_parts = <<w_type, w_echo>>
    /\ Truthy(find_executable(env, w_echo))
    /\ p_f \in StdoutTarget /\ obs.red.stdout_mode = "a"
    /\ files[p_f] = <<"x", "\n">> \o TypeLine(w_echo)

\* type ls: the resolver's path is reported on the terminal
C14_WitnessPath ==
    /\ obs.kind = "type" /\ pc = "continue"
    /\ obs.red.cmd_parts = <<w_type, w_ls>> /\ StdoutTarget = {}
    /\ obs.out = <<"l", "s", " ", "i", "s", " ", "/", "b", "/", "l", "s", "\n">>

\* C15: a line that is empty or made of whitespace only leaves the shell on
\* its way back to awaiting input: it was not tokenized, nothing was
\* dispatched, no file was touched and nothing was written. End of input
\* while awaiting input prints one newline and terminates the shell with
\* status 0, without an exception.
C15_BlankLineAndEndOfInput ==
    /\ (/\ obs.kind \notin {"none", "eof"}
        /\ \A i \in DOMAIN obs.line : obs.line[i] \in {" ", "\t", "\n"}) =>
            /\ pc = "continue" /\ exc = "none" /\ status = -1
            /\ obs.parts = <<>> /\ obs.red = NoRedirection
            /\ obs.opened = {} /\ files = obs.pre_files /\ dirs = obs.pre_dirs
            /\ obs.out = <<>> /\ obs.err = <<>> /\ obs.spawned = <<>>
    /\ obs.kind = "eof" =>
            /\ pc = "terminated" /\ status = 0 /\ exc = "none"
            /\ obs.out = <<"\n">> /\ obs.err = <<>>
            /\ files = obs.pre_files /\ dirs = obs.pre_dirs

\* a line of two spaces was read
C15_Witness ==
    /\ obs.kind = "blank" /\ obs.line = <<" ", " ">> /\ pc = "continue"

\* input ended after a line was read
C15_WitnessEndOfInput ==
    /\ obs.kind = "eof" /\ nlines = 1 /\ pc = "terminated" /\ status = 0

\* C16 (as claimed): a command vector whose command name is exit, echo or
\* type is handled by its built-in handler whatever the number of arguments:
\* it does not reach run_external, so no `command not found` message is
\* written and no process is spawned.
C16_BuiltinsNeverExternal ==
    \A name \in CommandName :
        name \in {w_exit, w_echo, w_type} =>
            /\ obs.kind \in {"exit", "echo", "type"}
            /\ obs.err = <<>>
            /\ obs.spawned = <<>>

\* C18 (as claimed): a line that passes the blank check and is tokenized and
\* parsed without error reaches the dispatch with a command vector that is
\* not empty, so that reading its first element raises nothing.
C18_CommandVectorNotEmpty ==
    obs.kind \notin {"none", "eof", "blank", "tokenize", "parse"} =>
        /\ obs.red.cmd_parts # <<>>
        /\ exc # "IndexError"

(***************************************************************************)
(* find_executable on its own                                              *)
(***************************************************************************)

\* The names find_executable is asked for: the known names, their prefixes,
\* the known names with a letter more, and one that is nowhere.
Programs == Texts \cup {n \o <<"x">> : n \in AllNames}

InitResolve ==
    /\ env \in Envs
    /\ found = NoFind
    /\ IdleCompleter
    /\ IdleRepl
    /\ IdleParse

\* self.find_executable(program) is called: PATH is read from the environment
\* in the call
Resolve(program) ==
    /\ found' = [program |-> program, path |-> find_executable(env, program),
                 called |-> TRUE]
    /\ UNCHANGED <<env, cvars, rvars, pvars>>

NextResolve == \E program \in Programs : Resolve(program)

SpecResolve == InitResolve /\ [][NextResolve]_vars

\* the positions of the search path whose directory holds name as a file
\* that may be executed
HitsOf(e, name) ==
    {i \in DOMAIN e.path :
        \E x \in e.entries :
            x.dir = e.path[i] /\ x.name = name /\ x.kind = "file" /\ x.x}

\* C17: find_executable(name) returns directory/name for the earliest
\* directory of the search path, as it is when the call is made, that holds
\* name as an executable file, and None exactly when no directory of the
\* search path does.
C17_FirstDirectoryWins ==
    found.called =>
        LET hits == HitsOf(env, found.program)
            first == CHOOSE i \in hits : \A j \in hits : i <= j
        IN  IF hits = {} THEN found.path = <<>>
            ELSE found.path = <<env.path[first] \o <<"/">> \o found.program>>

\* top is in /a and in /b, and /a comes first
C17_Witness ==
    /\ env = Env1 /\ found.called /\ found.program = w_top
    /\ found.path = <<<<"/", "a", "/", "t", "o", "p">>>>

\* ls is a directory in /a and a file in /b; /x does not exist
C17_WitnessSkipsDirectory ==
    /\ env = Env2 /\ found.called /\ found.program = w_ls
    /\ found.path = <<<<"/", "b", "/", "l", "s">>>>

(***************************************************************************)
(* Completion against resolution                                           *)
(***************************************************************************)

\* C20 (as claimed): every name of the cached candidate list is a built-in
\* or a name find_executable resolves under the same search path and
\* directories: no candidate is a name that dispatch would answer with
\* `command not found`.
C20_CandidatesResolve ==
    \A i \in DOMAIN matches_cache.matches :
        LET name == matches_cache.matches[i]
        IN  name \in Range(builtins) \/ find_executable(env, name) # <<>>

(***************************************************************************)
(* The line editor's enumeration of completions                            *)
(***************************************************************************)

\* readline asks complete(text, 0), complete(text, 1), ... for the text at
\* the cursor, and stops at the first call that gives no string (None, or an
\* exception, which it takes for None).
Enumerating == call.state >= 0 /\ call.res.kind = "str"

InitEditor == InitCompleter

\* Tab is pressed on text while no enumeration is running
Tab(text) ==
    /\ ~Enumerating
    /\ Complete(text, 0)

\* the last call gave a string: the next index is asked for. Indices from
\* MaxState on are asked as MaxState: complete treats them alike, only the
\* recorded index differs.
NextRequest ==
    /\ Enumerating
    /\ Complete(call.text, IF call.state < MaxState THEN call.state + 1 ELSE MaxState)

NextEditor ==
    \/ \E text \in Texts : Tab(text)
    \/ NextRequest

\* readline goes on asking as long as it is given strings
SpecEditor == InitEditor /\ [][NextEditor]_vars /\ WF_vars(NextRequest)

\* C19 (as claimed): every enumeration ends: once complete has given a
\* string, a later call for the same text gives none.
C19_EnumerationEnds == Enumerating ~> ~Enumerating

====
